---- MODULE Spec2Model ----
(***************************************************************************)
(* Model of ics_caldav_sync.py: main() runs ICSToCalDAV(...).synchronise() *)
(* in a loop.  One cycle = construct the object (connect to the CalDAV     *)
(* server, download and parse the ICS feed), save every remote event that  *)
(* passes the "not in the past" filter, then (unless keep_local) delete    *)
(* the local events whose UID is not in the remote calendar.               *)
(*                                                                         *)
(* Time is an integer clock.  A datetime is a wall-clock value `end` plus  *)
(* either no tzinfo (naive) or a UTC offset (aware); the instant of an     *)
(* aware datetime is end - utcoffset.                                      *)
(***************************************************************************)
EXTENDS Integers, Sequences, FiniteSets, TLC

\* ---------------------------------------------------------------- bounds
MaxTime == 2        \* wall-clock values and the clock range over 0..MaxTime;
                    \* the clock starts at 1 and a cycle starts at every tick

\* ------------------------------------------------------------ input sets
RemoteUIDSeq == <<"x", "y">>       \* UIDs the ICS feed may use, in feed order
RemoteUIDs == { RemoteUIDSeq[k] : k \in DOMAIN RemoteUIDSeq }
LocalUIDs == {"x", "z"}           \* UIDs the CalDAV calendar may hold at the start
FeedZones == {0}                  \* UTC offsets of aware events in the feed
OverrideZones == {-1, 1}             \* UTC offsets the TIMEZONE setting may force
LocalOffsets == {0, 1}            \* UTC offset of the machine's local time
Walls == 0..MaxTime

\* An ics.Event as far as the program reads it: uid, end, its tzinfo, and
\* timespan.is_all_day().  All-day events are naive dates.
Events ==
    { [uid |-> u, end |-> w, aware |-> a, utcoffset |-> o, all_day |-> d] :
        u \in RemoteUIDs, w \in Walls, a \in BOOLEAN, o \in FeedZones \cup {0},
        d \in BOOLEAN }

WellFormed(e) ==
    /\ (~e.aware => e.utcoffset = 0)
    /\ (e.aware => e.utcoffset \in FeedZones)
    /\ (e.all_day => ~e.aware)

FeedEvents == {e \in Events : WellFormed(e)}

Position(u) == CHOOSE k \in DOMAIN RemoteUIDSeq : RemoteUIDSeq[k] = u

\* The feeds: sequences of events with pairwise different UIDs, listed in the
\* order of RemoteUIDSeq.
Feeds ==
    { s \in UNION { [1..n -> FeedEvents] : n \in 0..Len(RemoteUIDSeq) } :
        \A i, j \in DOMAIN s : i < j => Position(s[i].uid) < Position(s[j].uid) }

VARIABLES
    pc,                 \* where main() is: "main", "sync", "delete", "synced",
                        \* "exited" (break at line 218), "crashed" (uncaught exception)
    sync_all,           \* self.sync_all
    keep_local,         \* self.keep_local
    timezone,           \* self.timezone: {} for None, {offset} otherwise
    sync_every,         \* main(): TRUE iff SYNC_EVERY is set
    local_offset,       \* UTC offset of datetime.now() on this machine
    feed,               \* what REMOTE_URL serves
    remote_calendar,    \* self.remote_calendar.events of the current cycle
    idx,                \* position of the for-loop at line 131
    local_calendar,     \* the CalDAV calendar: uid -> end instant of the stored event
    clock,              \* the current UTC instant
    cycle,              \* number of the current cycle of the while-loop
    save_calls,         \* per remote event: times lines 148-153 were entered this cycle
    local_events_ids,   \* result of _get_local_events_ids() this cycle
    events_to_delete,   \* the part of events_to_delete the loop at 163 has not reached
    delete_calls,       \* UIDs local_client.delete() was called for this cycle
    failure,            \* the uncaught exception of this cycle: "none", "fetch",
                        \* "save", "invalid", "report" or "delete"
    save_failed,        \* positions whose save raised a caught ValidateError/ValueError
    delete_refused,     \* UIDs whose delete the server answered with an error status
    local_before,       \* local_calendar when the cycle started
    listed,             \* TRUE iff _get_local_events_ids() was called this cycle
    plus_printed,       \* number of "+" printed this cycle (line 155)
    minus_printed,      \* number of "-" printed this cycle (line 167)
    converged           \* TRUE iff some cycle has returned with no failed save or delete

vars == <<pc, sync_all, keep_local, timezone, sync_every, local_offset, feed,
          remote_calendar, idx, local_calendar, clock, cycle, save_calls,
          local_events_ids, events_to_delete, delete_calls, failure, save_failed,
          delete_refused, local_before, listed, plus_printed, minus_printed,
          converged>>

config == <<sync_all, keep_local, timezone, sync_every, local_offset, feed>>
history == <<save_calls, local_events_ids, events_to_delete, delete_calls,
             save_failed, delete_refused, local_before, listed, plus_printed,
             minus_printed>>

\* --------------------------------------------------------------- helpers
Ids(cal) == DOMAIN cal

\* datetime.datetime.now() and datetime.datetime.now(datetime.timezone.utc)
now_naive == clock + local_offset
now_aware == clock

\* line 141: end.tzinfo is not None and end.tzinfo.utcoffset(end) is not None
IsAware(e) == e.aware

\* The UTC instant of an event's end; a naive end is read as UTC by the server.
EndInstant(e) == IF e.aware THEN e.end - e.utcoffset ELSE e.end

\* Variant of Event.replace_timezone: the wall-clock fields are moved by the
\* offset of the new zone.
replace_timezone_Convert(e, tz) ==
    [e EXCEPT !.aware = TRUE, !.utcoffset = tz, !.end = @ + tz]

\* Event.replace_timezone: the wall-clock fields stay, the tzinfo is replaced.
replace_timezone(e, tz) == [e EXCEPT !.aware = TRUE, !.utcoffset = tz]

\* Variant of lines 133-134: all-day events are given the timezone too.
SetTimezone_AllDayToo(e) ==
    IF timezone # {}
    THEN replace_timezone(e, CHOOSE tz \in timezone : TRUE)
    ELSE e

\* lines 133-134
SetTimezone(e) ==
    IF timezone # {} /\ ~e.all_day
    THEN replace_timezone(e, CHOOSE tz \in timezone : TRUE)
    ELSE e

\* Variant of lines 137-146: an event the local calendar already holds is
\* skipped too.
InThePast_OrExists(e) ==
    \/ e.uid \in Ids(local_calendar)
    \/ /\ ~sync_all
       /\ IF IsAware(e) THEN now_aware > EndInstant(e) ELSE now_naive > e.end

\* Variant of lines 137-146: the wall-clock fields of an aware end are compared,
\* its UTC offset is ignored.
InThePast_WallClock(e) ==
    /\ ~sync_all
    /\ IF IsAware(e) THEN now_aware > e.end ELSE now_naive > e.end

\* Variant of lines 137-146: an event that ends exactly now is skipped too.
InThePast_NotAfter(e) ==
    /\ ~sync_all
    /\ IF IsAware(e) THEN now_aware >= EndInstant(e) ELSE now_naive >= e.end

\* lines 137-146: TRUE iff the loop hits `continue` for e
InThePast(e) ==
    /\ ~sync_all
    /\ IF IsAware(e) THEN now_aware > EndInstant(e) ELSE now_naive > e.end

\* Variant of line 149: the server stores nothing.
Stored_Nothing(cal, e) == cal

\* save_event on the server: the event is stored under its UID
Stored(cal, e) ==
    [u \in Ids(cal) \cup {e.uid} |-> IF u = e.uid THEN EndInstant(e) ELSE cal[u]]

Removed(cal, u) == [v \in Ids(cal) \ {u} |-> cal[v]]

\* lines 137-146: the event is not skipped
FilterKeep(e) == ~InThePast(e)

\* lines 131-146 as a function of the event list: every event gets the
\* timezone override (lines 133-134), the ones in the past are dropped
Filter(events) ==
    SelectSeq([i \in DOMAIN events |-> SetTimezone(events[i])], FilterKeep)

\* ------------------------------------------------------------------ Init
\* The calendars main() may find: each event over (0) or far ahead (MaxTime + 1).
LocalCalendars ==
    UNION { [S -> {0, MaxTime + 1}] : S \in SUBSET LocalUIDs }

Init ==
    /\ pc = "main"
    /\ sync_all \in BOOLEAN
    /\ keep_local \in BOOLEAN
    /\ timezone \in {{}} \cup {{tz} : tz \in OverrideZones}
    /\ sync_every \in BOOLEAN
    /\ local_offset \in LocalOffsets
    /\ feed \in Feeds
    /\ remote_calendar = <<>>
    /\ idx = 1
    /\ local_calendar \in LocalCalendars
    /\ clock = 1
    /\ cycle = 1
    /\ save_calls = <<>>
    /\ local_events_ids = {}
    /\ events_to_delete = {}
    /\ delete_calls = {}
    /\ failure = "none"
    /\ save_failed = {}
    /\ delete_refused = {}
    /\ local_before = local_calendar
    /\ listed = FALSE
    /\ plus_printed = 0
    /\ minus_printed = 0
    /\ converged = FALSE

\* ------------------------------------------------------------- __init__
\* Where main() goes after ICSToCalDAV(**settings) at line 214: into
\* synchronise() when the constructor returned, out of main() when it raised
\* (nothing around line 214 catches anything).
ConstructOutcome_Proceed(ok) == "sync"

ConstructOutcome(ok) == IF ok THEN "sync" ELSE "crashed"

\* lines 55-76 succeed: the feed is downloaded and parsed
Construct ==
    /\ pc = "main"
    /\ pc' = ConstructOutcome(TRUE)
    /\ remote_calendar' = feed
    /\ idx' = 1
    /\ save_calls' = [i \in 1..Len(feed) |-> 0]
    /\ local_events_ids' = {}
    /\ events_to_delete' = {}
    /\ delete_calls' = {}
    /\ save_failed' = {}
    /\ delete_refused' = {}
    /\ failure' = "none"
    /\ local_before' = local_calendar
    /\ listed' = FALSE
    /\ plus_printed' = 0
    /\ minus_printed' = 0
    /\ UNCHANGED <<config, local_calendar, clock, cycle, converged>>

\* lines 55-76 raise: the CalDAV server or the feed cannot be reached, or the
\* feed does not parse.

ConstructFails ==
    /\ pc = "main"
    /\ pc' = ConstructOutcome(FALSE)
    /\ failure' = "fetch"
    /\ remote_calendar' = <<>>
    /\ idx' = 1
    /\ save_calls' = <<>>
    /\ local_events_ids' = {}
    /\ events_to_delete' = {}
    /\ delete_calls' = {}
    /\ save_failed' = {}
    /\ delete_refused' = {}
    /\ local_before' = local_calendar
    /\ listed' = FALSE
    /\ plus_printed' = 0
    /\ minus_printed' = 0
    /\ UNCHANGED <<config, local_calendar, clock, cycle, converged>>

\* ----------------------------------------------- synchronise, lines 131-157
InLoop == pc = "sync" /\ idx <= Len(remote_calendar)

\* The event of this iteration, after lines 133-134
Current == SetTimezone(remote_calendar[idx])

\* line 134 changes the event inside self.remote_calendar
Normalised == [remote_calendar EXCEPT ![idx] = Current]

\* lines 137-146: the event is in the past, `continue`
SkipPastEvent ==
    /\ InLoop
    /\ InThePast(Current)
    /\ remote_calendar' = Normalised
    /\ idx' = idx + 1
    /\ UNCHANGED <<pc, config, local_calendar, clock, cycle, history, failure,
                   converged>>

\* What lines 148-153 do with the outcome of save_event(_wrap(event)):
\* "ok", "invalid" (vobject.base.ValidateError or ValueError, caught and
\* logged) or "error" (any other exception, e.g. the PUT fails: not caught).
AfterSave_Abort(outcome) == IF outcome \in {"error", "invalid"} THEN "crashed" ELSE "sync"

AfterSave(outcome) == IF outcome = "error" THEN "crashed" ELSE "sync"

SaveEvent ==
    /\ InLoop
    /\ ~InThePast(Current)
    /\ remote_calendar' = Normalised
    /\ save_calls' = [save_calls EXCEPT ![idx] = @ + 1]
    /\ local_calendar' = Stored(local_calendar, Current)
    /\ pc' = AfterSave("ok")
    /\ idx' = idx + 1
    /\ plus_printed' = plus_printed + 1
    /\ UNCHANGED <<config, clock, cycle, local_events_ids, events_to_delete,
                   delete_calls, save_failed, delete_refused, local_before, failure,
                   listed, minus_printed, converged>>

SaveEventInvalid ==
    /\ InLoop
    /\ ~InThePast(Current)
    /\ remote_calendar' = Normalised
    /\ save_calls' = [save_calls EXCEPT ![idx] = @ + 1]
    /\ save_failed' = save_failed \cup {idx}
    /\ pc' = AfterSave("invalid")
    /\ idx' = IF pc' = "sync" THEN idx + 1 ELSE idx
    /\ failure' = IF pc' = "sync" THEN failure ELSE "invalid"
    /\ plus_printed' = IF pc' = "sync" THEN plus_printed + 1 ELSE plus_printed
    /\ UNCHANGED <<config, local_calendar, clock, cycle, local_events_ids,
                   events_to_delete, delete_calls, delete_refused, local_before,
                   listed, minus_printed, converged>>

SaveEventError ==
    /\ InLoop
    /\ ~InThePast(Current)
    /\ remote_calendar' = Normalised
    /\ save_calls' = [save_calls EXCEPT ![idx] = @ + 1]
    /\ pc' = AfterSave("error")
    /\ idx' = IF pc' = "sync" THEN idx + 1 ELSE idx
    /\ failure' = "save"
    /\ plus_printed' = IF pc' = "sync" THEN plus_printed + 1 ELSE plus_printed
    /\ UNCHANGED <<config, local_calendar, clock, cycle, local_events_ids,
                   events_to_delete, delete_calls, save_failed, delete_refused,
                   local_before, listed, minus_printed, converged>>

\* ----------------------------------------------- synchronise, lines 159-169
\* Variant of lines 131-157: the loop over the remote events can be left
\* before its last event.
LoopDone_Early == pc = "sync"

LoopDone == pc = "sync" /\ idx > Len(remote_calendar)

\* Variant of line 159: the deletion block runs whatever keep_local is.
DeletionRequested_Always == TRUE

\* line 159: if not self.keep_local
DeletionRequested == ~keep_local

\* line 159 with keep_local set: nothing is listed, nothing is deleted
KeepLocal ==
    /\ LoopDone
    /\ ~DeletionRequested
    /\ pc' = "synced"
    /\ converged' = (converged \/ (save_failed = {} /\ delete_refused = {}))
    /\ UNCHANGED <<config, remote_calendar, idx, local_calendar, clock, cycle,
                   history, failure>>

\* Variant of line 161: only the events a create was submitted for count as
\* remote.
remote_events_ids_Created ==
    { remote_calendar[i].uid : i \in { j \in DOMAIN remote_calendar : save_calls[j] > 0 } }

\* line 161
remote_events_ids == { remote_calendar[i].uid : i \in DOMAIN remote_calendar }

\* lines 87-98: the UIDs of all local events (sync_all), or of those the
\* server reports as occurring after now (search(start=arrow.utcnow()))
\* Variant of lines 87-91: every local event is listed, whatever sync_all is.
LocalEventsIds_Unfiltered == Ids(local_calendar)

LocalEventsIds ==
    IF sync_all
    THEN Ids(local_calendar)
    ELSE { u \in Ids(local_calendar) : local_calendar[u] > clock }

\* Variant of line 162: only the events that passed the filter are kept out
\* of the delete set.
EventsToDelete_Eligible(local_ids) ==
    local_ids \ { remote_calendar[i].uid :
                    i \in { j \in DOMAIN remote_calendar : ~InThePast(remote_calendar[j]) } }

\* Variant of line 162: the remote UIDs are not subtracted.
EventsToDelete_All(local_ids) == local_ids

\* line 162
EventsToDelete(local_ids) == local_ids \ remote_events_ids

ListAndPlan ==
    /\ LoopDone
    /\ DeletionRequested
    /\ local_events_ids' = LocalEventsIds
    /\ events_to_delete' = EventsToDelete(LocalEventsIds)
    /\ pc' = "delete"
    /\ listed' = TRUE
    /\ UNCHANGED <<config, remote_calendar, idx, local_calendar, clock, cycle,
                   save_calls, delete_calls, save_failed, delete_refused,
                   local_before, failure, plus_printed, minus_printed, converged>>

\* lines 90-94: the server cannot answer the filtered search; ReportError is
\* logged and raised again
SearchFails ==
    /\ LoopDone
    /\ DeletionRequested
    /\ ~sync_all
    /\ pc' = "crashed"
    /\ failure' = "report"
    /\ listed' = TRUE
    /\ UNCHANGED <<config, remote_calendar, idx, local_calendar, clock, cycle,
                   save_calls, local_events_ids, events_to_delete, delete_calls,
                   save_failed, delete_refused, local_before, plus_printed,
                   minus_printed, converged>>

\* What lines 163-168 do with the outcome of local_client.delete(url): "ok",
\* "refused" (the server answers with an error status, which nothing checks)
\* or "error" (the call raises: not caught).
AfterDelete(outcome) == IF outcome = "error" THEN "crashed" ELSE "delete"

DeleteEvent ==
    /\ pc = "delete"
    /\ \E u \in events_to_delete :
        /\ events_to_delete' = events_to_delete \ {u}
        /\ delete_calls' = delete_calls \cup {u}
        /\ local_calendar' = Removed(local_calendar, u)
    /\ pc' = AfterDelete("ok")
    /\ minus_printed' = minus_printed + 1
    /\ UNCHANGED <<config, remote_calendar, idx, clock, cycle, save_calls,
                   local_events_ids, save_failed, delete_refused, local_before,
                   failure, listed, plus_printed, converged>>

DeleteEventRefused ==
    /\ pc = "delete"
    /\ \E u \in events_to_delete :
        /\ events_to_delete' = events_to_delete \ {u}
        /\ delete_calls' = delete_calls \cup {u}
        /\ delete_refused' = delete_refused \cup {u}
    /\ pc' = AfterDelete("refused")
    /\ minus_printed' = minus_printed + 1
    /\ UNCHANGED <<config, remote_calendar, idx, local_calendar, clock, cycle,
                   save_calls, local_events_ids, save_failed, local_before, failure,
                   listed, plus_printed, converged>>

DeleteEventError ==
    /\ pc = "delete"
    /\ \E u \in events_to_delete :
        /\ events_to_delete' = IF AfterDelete("error") = "delete"
                               THEN events_to_delete \ {u} ELSE events_to_delete
        /\ delete_calls' = delete_calls \cup {u}
    /\ pc' = AfterDelete("error")
    /\ failure' = "delete"
    /\ minus_printed' = IF pc' = "delete" THEN minus_printed + 1 ELSE minus_printed
    /\ UNCHANGED <<config, remote_calendar, idx, local_calendar, clock, cycle,
                   save_calls, local_events_ids, save_failed, delete_refused,
                   local_before, listed, plus_printed, converged>>

\* the loop at line 163 is exhausted: synchronise() returns
DeleteDone ==
    /\ pc = "delete"
    /\ events_to_delete = {}
    /\ pc' = "synced"
    /\ converged' = (converged \/ (save_failed = {} /\ delete_refused = {}))
    /\ UNCHANGED <<config, remote_calendar, idx, local_calendar, clock, cycle,
                   history, failure>>

\* ------------------------------------------------------- main, lines 207-222
\* Variant of lines 208-211: next_run is always a time.
next_run_is_None_Never == FALSE

\* lines 208-211 and 217: next_run is None iff SYNC_EVERY is unset
next_run_is_None == ~sync_every

\* lines 217-218: SYNC_EVERY unset, break
RunOnce ==
    /\ pc = "synced"
    /\ next_run_is_None
    /\ pc' = "exited"
    /\ UNCHANGED <<config, remote_calendar, idx, local_calendar, clock, cycle,
                   history, failure, converged>>

\* lines 219-222: sleep until next_run, then the next iteration of the loop;
\* meanwhile time passes.  The ICSToCalDAV object of the finished cycle is gone.
SleepUntilNextRun ==
    /\ pc = "synced"
    /\ ~next_run_is_None
    /\ clock < MaxTime
    /\ pc' = "main"
    /\ cycle' = cycle + 1
    /\ clock' = clock + 1
    /\ remote_calendar' = <<>>
    /\ idx' = 1
    /\ save_calls' = <<>>
    /\ local_events_ids' = {}
    /\ events_to_delete' = {}
    /\ delete_calls' = {}
    /\ save_failed' = {}
    /\ delete_refused' = {}
    /\ local_before' = local_calendar
    /\ listed' = FALSE
    /\ plus_printed' = 0
    /\ minus_printed' = 0
    /\ UNCHANGED <<config, local_calendar, failure, converged>>

Next ==
    \/ Construct
    \/ ConstructFails
    \/ SkipPastEvent
    \/ SaveEvent
    \/ SaveEventInvalid
    \/ SaveEventError
    \/ KeepLocal
    \/ ListAndPlan
    \/ SearchFails
    \/ DeleteEvent
    \/ DeleteEventRefused
    \/ DeleteEventError
    \/ DeleteDone
    \/ RunOnce
    \/ SleepUntilNextRun

Spec == Init /\ [][Next]_vars

\* ------------------------------------------------- vocabulary of the claims
\* The identities of all events of the source feed.
SourceIds == { feed[i].uid : i \in DOMAIN feed }

\* The end of event e lies strictly before now (aware ends against the aware
\* now, naive ends against the naive now).
EndsBeforeNow(e) ==
    IF e.aware THEN e.end - e.utcoffset < clock ELSE e.end < clock + local_offset

\* Event number i of the current cycle is eligible: it passes the window
\* filter, after the timezone override was applied to it.
Eligible(i) == sync_all \/ ~EndsBeforeNow(SetTimezone(remote_calendar[i]))

EligibleIds ==
    { remote_calendar[i].uid : i \in { j \in DOMAIN remote_calendar : Eligible(j) } }

\* The identities a delete was planned for in this cycle.
DeleteSet == delete_calls \cup events_to_delete

\* synchronise() returned in a cycle with the delete phase enabled.
CycleCompleteWithDeletion == pc = "synced" /\ ~keep_local

\* No create and no delete of the cycle failed.
NoItemFailed == save_failed = {} /\ delete_refused = {}

\* -------------------------------------------------------------------- C1
\* C1 as stated: with deletion enabled, the identities deleted in a cycle are
\* the destination listing minus the identities of the ELIGIBLE source events,
\* so a listed identity whose source event is excluded by the window is deleted.
C1_DeleteSetIsListingMinusEligible ==
    CycleCompleteWithDeletion => delete_calls = local_events_ids \ EligibleIds

\* C1 amended: with deletion enabled, the identities deleted in a cycle are the
\* destination listing minus the identities of ALL source events, eligible or
\* not; a listed identity whose source event is excluded by the window is kept.
C1_DeleteSetIsListingMinusSource ==
    /\ pc = "delete" => DeleteSet = local_events_ids \ SourceIds
    /\ CycleCompleteWithDeletion => delete_calls = local_events_ids \ SourceIds

\* The scenario of the claim: future-only mode, x has ended in the source and
\* is listed by the destination, y is eligible, z is only in the destination.
C1_Witness ==
    /\ CycleCompleteWithDeletion
    /\ ~sync_all
    /\ SourceIds = {"x", "y"}
    /\ EligibleIds = {"y"}
    /\ local_events_ids = {"x", "y", "z"}
    /\ delete_calls = {"z"}

\* -------------------------------------------------------------------- C2
\* C2: every identity a delete is issued for is in the destination listing of
\* that cycle, and none is the identity of an eligible source event.
C2_DeletionSoundness ==
    /\ delete_calls \subseteq local_events_ids
    /\ delete_calls \cap EligibleIds = {}

C2_Witness ==
    /\ pc = "synced"
    /\ delete_calls # {}
    /\ local_events_ids \cap EligibleIds # {}

\* -------------------------------------------------------------------- C3
\* C3 as stated: after a complete cycle with deletion enabled and no failed
\* create or delete, the destination identities are exactly the eligible
\* source identities.
C3_ConvergesToEligible ==
    (CycleCompleteWithDeletion /\ NoItemFailed) => Ids(local_calendar) = EligibleIds

\* The identities the cycle leaves alone: those the destination held before
\* that belong to some source event, or that the future-only listing does not
\* return because their event is over.
Survivors ==
    { u \in Ids(local_before) :
        u \in SourceIds \/ (~sync_all /\ local_before[u] <= clock) }

\* C3 amended: after such a cycle the destination identities are the eligible
\* source identities plus the survivors; with full sync on, that is exactly
\* the set of source identities.
C3_ConvergesUpToSurvivors ==
    (CycleCompleteWithDeletion /\ NoItemFailed) =>
        /\ Ids(local_calendar) = EligibleIds \cup Survivors
        /\ sync_all => Ids(local_calendar) = EligibleIds

C3_Witness ==
    /\ CycleCompleteWithDeletion
    /\ NoItemFailed
    /\ ~sync_all
    /\ delete_calls # {}
    /\ EligibleIds # {}
    /\ Ids(local_calendar) # EligibleIds

\* -------------------------------------------------------------------- C4
\* C4: a create is submitted exactly once for every eligible source event the
\* loop has handled and for no ineligible one, whether or not the destination
\* already holds the identity; when the create loop has run to its end, that
\* is every eligible event of the feed.
C4_CreatesAreTheEligible ==
    /\ \A i \in DOMAIN remote_calendar :
          /\ save_calls[i] <= 1
          /\ save_calls[i] = 1 => Eligible(i)
          /\ (i < idx /\ Eligible(i)) => save_calls[i] = 1
    /\ pc \in {"delete", "synced", "exited"} => idx = Len(remote_calendar) + 1

\* A finished cycle that created an event whose identity the destination
\* already held, and skipped another one.
C4_Witness ==
    /\ pc = "synced"
    /\ \E i, j \in DOMAIN remote_calendar :
          /\ save_calls[i] = 1
          /\ remote_calendar[i].uid \in Ids(local_before)
          /\ save_calls[j] = 0

\* -------------------------------------------------------------------- C5
\* C5: a create that fails with a validation error does not abort the cycle:
\* the loop goes on with the next event, and a cycle in which nothing else
\* raised submits a create for every eligible event and, with deletion
\* enabled, issues every delete of its delete set.
C5_ValidationErrorIsolated ==
    (save_failed # {} /\ failure \in {"none", "invalid"}) =>
        /\ pc # "crashed"
        /\ \A i \in save_failed : i < idx
        /\ \A i \in DOMAIN remote_calendar :
              (i < idx /\ Eligible(i)) => save_calls[i] = 1
        /\ pc \in {"synced", "exited"} =>
              /\ idx = Len(remote_calendar) + 1
              /\ ~keep_local => delete_calls = local_events_ids \ SourceIds

\* The first create failed validation, the second event was still created and
\* the delete phase deleted something.
C5_Witness ==
    /\ pc = "synced"
    /\ save_failed = {1}
    /\ Len(remote_calendar) = 2
    /\ save_calls[2] = 1
    /\ remote_calendar[2].uid \in Ids(local_calendar)
    /\ delete_calls # {}

\* -------------------------------------------------------------------- C6
\* C6: a create that fails with a transport error is skipped like a validation
\* error: the cycle goes on (it is not ended by the exception).
C6_TransportErrorIsolated == failure = "save" => pc # "crashed"

\* -------------------------------------------------------------------- C7
\* C7: when the delete of one identity fails, a delete is still issued for
\* every other identity of the delete set.
C7_DeleteErrorIsolated ==
    (failure = "delete" /\ pc \in {"crashed", "synced", "exited"}) =>
        events_to_delete \subseteq delete_calls

\* -------------------------------------------------------------------- C8
\* C8: when fetching or parsing the source fails, no create and no delete is
\* applied: the destination is as it was before the cycle.
C8_FetchFailureAppliesNothing ==
    failure = "fetch" =>
        /\ local_calendar = local_before
        /\ \A i \in DOMAIN save_calls : save_calls[i] = 0
        /\ delete_calls = {}
        /\ local_events_ids = {}

\* A failed fetch with a destination that the delete phase would have emptied.
C8_Witness ==
    /\ failure = "fetch"
    /\ ~keep_local
    /\ sync_all
    /\ Ids(local_calendar) # {}

\* -------------------------------------------------------------------- C9
\* C9: with a cycle interval configured, main() is still running after a
\* cycle that a fetch or parse failure aborted (the next cycle is attempted).
C9_LoopSurvivesFetchFailure == (sync_every /\ failure = "fetch") => pc # "crashed"

NaiveNow == clock + local_offset

\* C11 as stated: in future-only mode no create is submitted for an event
\* whose naive end equals the naive wall-clock value of now.
C11_NaiveEndAtNowExcluded ==
    \A i \in DOMAIN remote_calendar :
        ( /\ ~sync_all
          /\ i < idx
          /\ ~remote_calendar[i].aware
          /\ remote_calendar[i].end = NaiveNow )
        => save_calls[i] = 0

\* C11 amended: in future-only mode an event whose naive end equals the naive
\* wall-clock value of now is kept (a create is submitted for it); a naive
\* end is excluded only when it is strictly before now.
C11_NaiveEndAtNowKept ==
    \A i \in DOMAIN remote_calendar :
        (~sync_all /\ ~remote_calendar[i].aware) =>
            /\ (i < idx /\ remote_calendar[i].end >= NaiveNow) => save_calls[i] = 1
            /\ remote_calendar[i].end < NaiveNow => save_calls[i] = 0

\* A finished future-only cycle that created a naive event ending exactly now.
C11_Witness ==
    /\ pc = "synced"
    /\ ~sync_all
    /\ \E i \in DOMAIN remote_calendar :
          /\ ~remote_calendar[i].aware
          /\ remote_calendar[i].end = NaiveNow
          /\ save_calls[i] = 1

\* ------------------------------------------------------------------- C12
\* C12: an all-day event keeps the zone the feed gave it, whatever the
\* timezone override is; an event that is not all-day carries the override
\* zone (wall-clock fields unchanged) once the loop has handled it when an
\* override is configured, and is unchanged when none is.
C12_AllDayNeverRezoned ==
    \A i \in DOMAIN remote_calendar :
        /\ feed[i].all_day => remote_calendar[i] = feed[i]
        /\ timezone = {} => remote_calendar[i] = feed[i]
        /\ (timezone # {} /\ ~feed[i].all_day /\ i < idx) =>
              /\ remote_calendar[i].aware
              /\ remote_calendar[i].utcoffset \in timezone
              /\ remote_calendar[i].end = feed[i].end
              /\ remote_calendar[i].uid = feed[i].uid

\* An override is set; the cycle handled an all-day event and rezoned a
\* timed one.
C12_Witness ==
    /\ pc = "synced"
    /\ timezone # {}
    /\ \E i, j \in DOMAIN remote_calendar :
          /\ feed[i].all_day
          /\ ~feed[j].all_day
          /\ remote_calendar[j] # feed[j]
\* ------------------------------------------------------------------- C13
\* C13: with keep_local set, no delete is ever issued, the destination
\* listing is never requested, and every destination event that no create of
\* the cycle touched is still there, unchanged.
C13_KeepLocalDeletesNothing ==
    keep_local =>
        /\ delete_calls = {}
        /\ events_to_delete = {}
        /\ minus_printed = 0
        /\ ~listed
        /\ pc # "delete"
        /\ failure \notin {"report", "delete"}
        /\ \A u \in Ids(local_before) :
              \/ \E i \in DOMAIN remote_calendar :
                    remote_calendar[i].uid = u /\ save_calls[i] > 0
              \/ u \in Ids(local_calendar) /\ local_calendar[u] = local_before[u]

C13_Witness ==
    /\ pc = "synced"
    /\ keep_local
    /\ \E i \in DOMAIN save_calls : save_calls[i] = 1
    /\ Ids(local_before) \ SourceIds # {}
    /\ \A u \in Ids(local_before) \ SourceIds :
          u \in Ids(local_calendar) /\ local_calendar[u] = local_before[u]

\* ------------------------------------------------------------------- C14
\* The identities of the source events that are eligible at the present
\* clock, read off the feed as served.
EligibleSourceIds ==
    { feed[i].uid : i \in { j \in DOMAIN feed :
                              sync_all \/ ~EndsBeforeNow(IF timezone # {} /\ ~feed[j].all_day
                                                         THEN replace_timezone(feed[j], CHOOSE z \in timezone : TRUE)
                                                         ELSE feed[j]) } }

SubmittedMark(r) == r.calls > 0

Submitted ==
    LET marked == SelectSeq([i \in DOMAIN remote_calendar |->
                                [event |-> remote_calendar[i], calls |-> save_calls[i]]],
                            SubmittedMark)
    IN  [i \in DOMAIN marked |-> marked[i].event]

\* C15: for a fixed now, sync mode and timezone override, filtering (timezone
\* override included) the output of the filter gives that output again; the
\* events a cycle submits are the filter's output for the feed.
C15_FilterIdempotent ==
    /\ Filter(Filter(feed)) = Filter(feed)
    /\ (pc \in {"delete", "synced", "exited"} /\ failure = "none") =>
          /\ Submitted = Filter(feed)
          /\ Filter(Submitted) = Submitted

C15_Witness ==
    /\ pc = "synced"
    /\ ~sync_all
    /\ timezone # {}
    /\ Len(feed) = 2
    /\ Len(Filter(feed)) = 1
    /\ Filter(feed) # SelectSeq(feed, FilterKeep)
    /\ Submitted = Filter(feed)

\* ------------------------------------------------------------------- C16
\* synchronise() has returned: the loop over the remote events is exhausted
\* and, unless keep_local is set, so is the loop over the events to delete.
CycleFullyCompleted ==
    /\ pc = "synced"
    /\ idx > Len(remote_calendar)
    /\ events_to_delete = {}
    /\ keep_local \/ listed

\* C16: with no interval configured the process runs one cycle and exits
\* after it; with an interval, a new cycle starts only after the previous one
\* has fully completed, its apply phase included.
C16_OneCycleOrSequential ==
    [][ /\ ~sync_every => cycle' = 1
        /\ (~sync_every /\ pc = "synced") => pc' = "exited"
        /\ pc' = "exited" => (~sync_every /\ CycleFullyCompleted /\ cycle = 1)
        /\ cycle' # cycle =>
              (sync_every /\ CycleFullyCompleted /\ cycle' = cycle + 1 /\ pc' = "main")
        /\ (pc = "main" /\ pc' = "sync") => idx' = 1
      ]_vars

C16_Witness ==
    /\ pc = "exited"
    /\ ~sync_every
    /\ cycle = 1
    /\ delete_calls # {}
    /\ \E i \in DOMAIN save_calls : save_calls[i] = 1

\* ------------------------------------------------------------------- C17
\* What a listing of calendar cal answers at the present clock: everything in
\* a full sync, otherwise the events that end after now.
ListingOf(cal) ==
    IF sync_all THEN DOMAIN cal ELSE { u \in DOMAIN cal : cal[u] > clock }

\* The destination as the creates of this cycle left it, before any delete:
\* the deletes of the cycle put back.
AfterCreates ==
    [u \in DOMAIN local_calendar \cup DOMAIN local_before |->
        IF u \in DOMAIN local_calendar THEN local_calendar[u] ELSE local_before[u]]

\* C17 as stated: the listing used for the delete set is taken before any
\* create of the cycle is applied, and no delete is issued before the last
\* create.
C17_ListingBeforeCreates ==
    /\ (listed /\ pc \in {"delete", "synced"}) =>
          local_events_ids = ListingOf(local_before)
    /\ delete_calls # {} => idx > Len(remote_calendar)

\* C17, amended: the order is creates, then the listing, then the deletes;
\* the listing is taken after the last create of the cycle and before the
\* first delete, and no delete is issued before the last create.
C17_ListingAfterCreates ==
    /\ (listed /\ pc \in {"delete", "synced"}) =>
          local_events_ids = ListingOf(AfterCreates)
    /\ listed => idx > Len(remote_calendar)
    /\ delete_calls # {} => (listed /\ idx > Len(remote_calendar))
    /\ pc = "sync" => (~listed /\ delete_calls = {})

C17_Witness ==
    /\ pc = "synced"
    /\ listed
    /\ delete_calls # {}
    /\ local_events_ids # ListingOf(local_before)
    /\ local_events_ids = ListingOf(AfterCreates)

\* ------------------------------------------------------------------- C18
\* The creates of this cycle that succeeded.
SucceededCreates ==
    { i \in DOMAIN save_calls : i < idx /\ save_calls[i] > 0 /\ i \notin save_failed }

\* C18: the number of events the cycle reports as created is the number of
\* creates that succeeded; an event whose create raised a validation error is
\* not reported as created.
C18_ReportedCreatesSucceeded ==
    pc \in {"delete", "synced", "exited"} =>
        plus_printed = Cardinality(SucceededCreates)

\* ------------------------------------------------------------------- C19
\* C19: the delete set is disjoint from the identities of all source events,
\* eligible or not, created or failed; no event created in a cycle is deleted
\* in it, and a destination event whose identity is anywhere in the source is
\* never deleted.
C19_SourceIdsNeverDeleted ==
    /\ (events_to_delete \cup delete_calls) \cap SourceIds = {}
    /\ \A i \in DOMAIN remote_calendar :
          i \in SucceededCreates => remote_calendar[i].uid \in DOMAIN local_calendar
    /\ \A u \in SourceIds \cap DOMAIN local_before : u \in DOMAIN local_calendar

C19_Witness ==
    /\ pc = "synced"
    /\ delete_calls \ delete_refused # {}
    /\ \E i \in DOMAIN remote_calendar :
          /\ save_calls[i] = 0
          /\ remote_calendar[i].uid \in local_events_ids
          /\ remote_calendar[i].uid \in DOMAIN local_calendar
    /\ \E i \in DOMAIN remote_calendar :
          /\ i \in save_failed
          /\ remote_calendar[i].uid \in local_events_ids

\* ------------------------------------------------------------------- C20
\* C20: without full sync and with deletion enabled, a failure of the
\* time-filtered listing is raised only after every create of the cycle has
\* been applied; the cycle ends with no delete issued and the process stops
\* there.  With full sync the listing is unfiltered and cannot fail this way.
C20_ListingFailureAfterCreates ==
    /\ sync_all => failure # "report"
    /\ failure = "report" =>
          /\ ~sync_all /\ ~keep_local
          /\ pc = "crashed"
          /\ idx = Len(remote_calendar) + 1
          /\ Len(remote_calendar) = Len(feed)
          /\ \A i \in DOMAIN remote_calendar :
                save_calls[i] = IF Eligible(i) THEN 1 ELSE 0
          /\ \A i \in DOMAIN remote_calendar :
                (save_calls[i] = 1 /\ i \notin save_failed) =>
                    /\ remote_calendar[i].uid \in DOMAIN local_calendar
                    /\ local_calendar[remote_calendar[i].uid] = EndInstant(remote_calendar[i])
          /\ delete_calls = {}
          /\ minus_printed = 0
          /\ events_to_delete = {}

C20_Witness ==
    /\ failure = "report"
    /\ pc = "crashed"
    /\ cycle = 2
    /\ \E i \in DOMAIN save_calls : save_calls[i] = 1 /\ i \notin save_failed
    /\ DOMAIN local_calendar \ SourceIds # {}

====
